---- MODULE Spec2Model ----
(***************************************************************************)
(* Boundary-face inheritance in the H3 hierarchy (h3_boundary_utils.py).   *)
(*                                                                         *)
(* The four functions of the module are pure; each is an operator computed *)
(* the way the Python computes it, and the specification applies them to   *)
(* inputs drawn from bounded sets.  The h3 grid library is modelled by a   *)
(* cell = (base cell is a pentagon?, digits below the base cell).          *)
(***************************************************************************)
EXTENDS Integers, Sequences, FiniteSets, TLC

VARIABLES
  pc,          \* "idle", or "done" once the call has ended
  call_op,     \* the function called
  call_cell,   \* its cell argument (h, or parent)
  call_faces,  \* its input_faces argument
  call_res,    \* its resolution argument (res_parent, or target_res)
  faces_out,   \* outcome of a tracing call: a face set
  cell_out,    \* outcome of cell_to_coarsest_ancestor_on_faces: a cell
  cells_out    \* outcome of children_on_boundary_faces: a list of cells

vars == <<pc, call_op, call_cell, call_faces, call_res, faces_out, cell_out, cells_out>>

(* ------------------------------ bounds -------------------------------- *)

\* finest resolution of a cell passed to the tracing functions
MaxRes == 6

\* number of trailing digits of such a cell that are not fixed to 0
MaxDepth == 2

\* largest face set passed in, apart from the default set of all six faces
MaxFaces == 2

\* deepest expansion below the parent passed to children_on_boundary_faces
MaxK == 2

(* --------------------------- the face tables --------------------------- *)

Faces == 1..6

Empty == <<>>

\* child face -> parent face, hexagon parent, by parity and child position
boundary_face_mapping_hex ==
  ( 0 :> ( 0 :> Empty
        @@ 1 :> (2 :> 3 @@ 3 :> 1 @@ 1 :> 1)
        @@ 2 :> (4 :> 6 @@ 2 :> 2 @@ 6 :> 2)
        @@ 3 :> (6 :> 2 @@ 2 :> 3 @@ 3 :> 3)
        @@ 4 :> (1 :> 5 @@ 4 :> 4 @@ 5 :> 4)
        @@ 5 :> (1 :> 5 @@ 3 :> 1 @@ 5 :> 5)
        @@ 6 :> (4 :> 6 @@ 5 :> 4 @@ 6 :> 6) ) )
  @@
  ( 1 :> ( 0 :> Empty
        @@ 1 :> (3 :> 3 @@ 1 :> 3 @@ 5 :> 1)
        @@ 2 :> (2 :> 6 @@ 6 :> 6 @@ 3 :> 2)
        @@ 3 :> (2 :> 2 @@ 1 :> 3 @@ 3 :> 2)
        @@ 4 :> (4 :> 5 @@ 5 :> 5 @@ 6 :> 4)
        @@ 5 :> (1 :> 1 @@ 4 :> 5 @@ 5 :> 1)
        @@ 6 :> (4 :> 4 @@ 2 :> 6 @@ 6 :> 4) ) )

\* parent face -> child faces, hexagon parent
reversed_boundary_face_mapping_hex ==
  ( 0 :> ( 1 :> (1 :> {1, 3} @@ 3 :> {2})
        @@ 2 :> (2 :> {2, 6} @@ 6 :> {4})
        @@ 3 :> (2 :> {6} @@ 3 :> {2, 3})
        @@ 4 :> (4 :> {4, 5} @@ 5 :> {1})
        @@ 5 :> (5 :> {1, 5} @@ 1 :> {3})
        @@ 6 :> (4 :> {5} @@ 6 :> {4, 6})
        @@ 0 :> Empty ) )
  @@
  ( 1 :> ( 1 :> (3 :> {1, 3} @@ 1 :> {5})
        @@ 2 :> (6 :> {2, 6} @@ 2 :> {3})
        @@ 3 :> (2 :> {2, 3} @@ 3 :> {1})
        @@ 4 :> (5 :> {4, 5} @@ 4 :> {6})
        @@ 5 :> (1 :> {1, 5} @@ 5 :> {4})
        @@ 6 :> (4 :> {4, 6} @@ 6 :> {2})
        @@ 0 :> Empty ) )

\* child face -> parent face, pentagon parent
boundary_face_mapping_pent ==
  ( 0 :> ( 0 :> Empty
        @@ 1 :> (4 :> 5 @@ 2 :> 1 @@ 6 :> 1)
        @@ 2 :> (6 :> 1 @@ 3 :> 2 @@ 2 :> 2)
        @@ 3 :> (5 :> 2 @@ 4 :> 2 @@ 6 :> 4)
        @@ 4 :> (3 :> 2 @@ 5 :> 4 @@ 1 :> 2)
        @@ 5 :> (5 :> 3 @@ 6 :> 5 @@ 4 :> 5)
        @@ 6 :> Empty ) )
  @@
  ( 1 :> ( 0 :> Empty
        @@ 1 :> (2 :> 5 @@ 6 :> 5 @@ 3 :> 1)
        @@ 2 :> (3 :> 1 @@ 2 :> 1 @@ 1 :> 2)
        @@ 3 :> (1 :> 4 @@ 4 :> 3 @@ 5 :> 3)
        @@ 4 :> (1 :> 2 @@ 5 :> 2 @@ 4 :> 4)
        @@ 5 :> (2 :> 5 @@ 4 :> 3 @@ 6 :> 3)
        @@ 6 :> Empty ) )

\* parent face -> child faces, pentagon parent
reversed_boundary_face_mapping_pent ==
  ( 0 :> ( 1 :> (1 :> {2, 6} @@ 5 :> {4})
        @@ 2 :> (1 :> {6} @@ 2 :> {2, 3})
        @@ 3 :> (4 :> {1} @@ 3 :> {4, 5})
        @@ 4 :> (4 :> {5} @@ 2 :> {1, 3})
        @@ 5 :> (5 :> {4, 6} @@ 3 :> {5})
        @@ 6 :> Empty
        @@ 0 :> Empty ) )
  @@
  ( 1 :> ( 1 :> (5 :> {2, 6} @@ 1 :> {3})
        @@ 2 :> (2 :> {1} @@ 1 :> {2, 3})
        @@ 3 :> (3 :> {6} @@ 4 :> {4, 5})
        @@ 4 :> (4 :> {4} @@ 2 :> {1, 5})
        @@ 5 :> (5 :> {2} @@ 3 :> {4, 6})
        @@ 6 :> Empty
        @@ 0 :> Empty ) )

(* ------------------------- the h3 grid library ------------------------- *)

\* A cell: whether its resolution-0 base cell is a pentagon, and the digits
\* (0..6, one per resolution) that lead from the base cell down to it.
Cell(pentBase, digits) == [pent |-> pentBase, digits |-> digits]

\* h3.get_resolution
get_resolution(c) == Len(c.digits)

\* h3.is_pentagon: a pentagon base cell followed by center digits only
is_pentagon(c) == c.pent /\ \A i \in 1..Len(c.digits) : c.digits[i] = 0

\* h3.cell_to_parent(c, res)
cell_to_parent(c, res) == Cell(c.pent, SubSeq(c.digits, 1, res))

\* h3.cell_to_child_pos(c, res) for res = resolution(c) - 1, the only use the
\* module makes of it: the index of c among its parent's children.  A
\* pentagon has no child with digit 1, so its children 2..6 sit at 1..5.
cell_to_child_pos(c, res) ==
  LET d == c.digits[res + 1]
  IN  IF is_pentagon(cell_to_parent(c, res)) /\ d > 0 THEN d - 1 ELSE d

\* h3.cell_to_children(c, res) for res = resolution(c) + 1, in index order
cell_to_children(c, res) ==
  IF is_pentagon(c)
  THEN [i \in 1..6 |-> Cell(c.pent, Append(c.digits, IF i = 1 THEN 0 ELSE i))]
  ELSE [i \in 1..7 |-> Cell(c.pent, Append(c.digits, i - 1))]

(* ------------------------- outcomes of a call -------------------------- *)

\* A call ends by returning a value or by raising ValueError; queries counts
\* the h3 parent/child/pentagon queries and table lookups made before that.
\* (value is what a returning call returns; a raising call has none, and the
\* field then holds the placeholder v)
Returned(v, q) == [raised |-> FALSE, value |-> v, queries |-> q]

ValueError(v, q) == [raised |-> TRUE, value |-> v, queries |-> q]

\* an optional argument: <<>> is Python's None, <<n>> the integer n
None == <<>>

Some(n) == <<n>>

(* ------------------- trace_cell_to_ancestor_faces ---------------------- *)

\* variant: the table is chosen by the parity of the parent's resolution
face_map_of_parent_parity(parent_is_pent, parity, child_pos) ==
  LET table == (IF parent_is_pent THEN boundary_face_mapping_pent
                                  ELSE boundary_face_mapping_hex)[1 - parity]
  IN  IF child_pos \in DOMAIN table THEN table[child_pos] ELSE Empty

\* (pent if parent_is_pent else hex)[parity].get(child_pos, {})
face_map_of(parent_is_pent, parity, child_pos) ==
  LET table == (IF parent_is_pent THEN boundary_face_mapping_pent
                                  ELSE boundary_face_mapping_hex)[parity]
  IN  IF child_pos \in DOMAIN table THEN table[child_pos] ELSE Empty

\* {face_map[f] for f in input_faces if f in face_map}
mapped_faces_of(face_map, input_faces) ==
  {face_map[f] : f \in input_faces \cap DOMAIN face_map}

\* the loop "for res in range(h_res, res_parent, -1)", from res downward
RECURSIVE trace_loop(_, _, _, _, _)
trace_loop(c, input_faces, res, res_parent, q) ==
  IF res <= res_parent THEN Returned(input_faces, q)
  ELSE IF is_pentagon(c) THEN Returned({}, q + 1)
  ELSE LET parity == res % 2
           child_pos == cell_to_child_pos(c, res - 1)
           parent == cell_to_parent(c, res - 1)
           parent_is_pent == is_pentagon(parent)
       IN  IF child_pos = 0 THEN Returned({}, q + 4)
           ELSE LET face_map == face_map_of(parent_is_pent, parity, child_pos)
                    mapped_faces == mapped_faces_of(face_map, input_faces)
                IN  IF mapped_faces = {} THEN Returned({}, q + 5)
                    ELSE trace_loop(parent, mapped_faces, res - 1, res_parent, q + 5)

\* variant: a target equal to the cell's own resolution is let through
trace_invalid_resolution_strict(h_res, res_parent) ==
  res_parent > h_res \/ res_parent < 0

\* the checks of the arguments: TRUE when the call raises ValueError
trace_invalid_resolution(h_res, res_parent) ==
  res_parent >= h_res \/ res_parent < 0

\* variant: the parity is computed once, from the resolution of the cell
\* passed in, instead of at every level of the loop
RECURSIVE trace_loop_fixed_parity(_, _, _, _, _, _)
trace_loop_fixed_parity(c, input_faces, res, res_parent, q, parity) ==
  IF res <= res_parent THEN Returned(input_faces, q)
  ELSE IF is_pentagon(c) THEN Returned({}, q + 1)
  ELSE LET child_pos == cell_to_child_pos(c, res - 1)
           parent == cell_to_parent(c, res - 1)
           parent_is_pent == is_pentagon(parent)
       IN  IF child_pos = 0 THEN Returned({}, q + 4)
           ELSE LET face_map == face_map_of(parent_is_pent, parity, child_pos)
                    mapped_faces == mapped_faces_of(face_map, input_faces)
                IN  IF mapped_faces = {} THEN Returned({}, q + 5)
                    ELSE trace_loop_fixed_parity(parent, mapped_faces, res - 1,
                                                 res_parent, q + 5, parity)

trace_cell_to_ancestor_faces_fixed_parity(c, input_faces, res_parent_arg) ==
  LET h_res == get_resolution(c)
      res_parent == IF res_parent_arg = None THEN h_res - 1 ELSE res_parent_arg[1]
  IN  IF trace_invalid_resolution(h_res, res_parent) THEN ValueError({}, 0)
      ELSE IF input_faces = {} THEN Returned({}, 0)
      ELSE trace_loop_fixed_parity(c, input_faces, h_res, res_parent, 0, h_res % 2)

trace_cell_to_ancestor_faces(c, input_faces, res_parent_arg) ==
  LET h_res == get_resolution(c)
      res_parent == IF res_parent_arg = None THEN h_res - 1 ELSE res_parent_arg[1]
  IN  IF trace_invalid_resolution(h_res, res_parent) THEN ValueError({}, 0)
      ELSE IF input_faces = {} THEN Returned({}, 0)
      ELSE trace_loop(c, input_faces, h_res, res_parent, 0)

(* --------------------- trace_cell_to_parent_faces ---------------------- *)

trace_cell_to_parent_faces(c, input_faces) ==
  LET parent_res == get_resolution(c) - 1
  IN  trace_cell_to_ancestor_faces(c, input_faces, Some(parent_res))

(* ----------------- cell_to_coarsest_ancestor_on_faces ------------------ *)

\* variant: the loop stops at resolution 1 ("while res > 1")
RECURSIVE coarsest_loop_stops_early(_, _, _, _)
coarsest_loop_stops_early(c, input_faces, res, q) ==
  IF res > 1
  THEN LET parent_res == res - 1
           boundary_faces == trace_cell_to_ancestor_faces(c, input_faces, Some(parent_res))
       IN  IF boundary_faces.raised THEN ValueError(c, q + boundary_faces.queries)
           ELSE IF boundary_faces.value = {} THEN Returned(c, q + boundary_faces.queries)
           ELSE coarsest_loop_stops_early(cell_to_parent(c, parent_res),
                                          boundary_faces.value, parent_res,
                                          q + boundary_faces.queries + 1)
  ELSE Returned(c, q)

\* variant: on an empty trace the parent is returned instead of the cell
RECURSIVE coarsest_loop_returns_parent(_, _, _, _)
coarsest_loop_returns_parent(c, input_faces, res, q) ==
  IF res > 0
  THEN LET parent_res == res - 1
           boundary_faces == trace_cell_to_ancestor_faces(c, input_faces, Some(parent_res))
       IN  IF boundary_faces.raised THEN ValueError(c, q + boundary_faces.queries)
           ELSE IF boundary_faces.value = {}
                THEN Returned(cell_to_parent(c, parent_res), q + boundary_faces.queries + 1)
           ELSE coarsest_loop_returns_parent(cell_to_parent(c, parent_res),
                                             boundary_faces.value, parent_res,
                                             q + boundary_faces.queries + 1)
  ELSE Returned(c, q)

\* the loop "while res > 0"
RECURSIVE coarsest_loop(_, _, _, _)
coarsest_loop(c, input_faces, res, q) ==
  IF res > 0
  THEN LET parent_res == res - 1
           boundary_faces == trace_cell_to_ancestor_faces(c, input_faces, Some(parent_res))
       IN  IF boundary_faces.raised THEN ValueError(c, q + boundary_faces.queries)
           ELSE IF boundary_faces.value = {} THEN Returned(c, q + boundary_faces.queries)
           ELSE coarsest_loop(cell_to_parent(c, parent_res), boundary_faces.value,
                              parent_res, q + boundary_faces.queries + 1)
  ELSE Returned(c, q)

cell_to_coarsest_ancestor_on_faces(c, input_faces) ==
  coarsest_loop(c, input_faces, get_resolution(c), 0)

(* --------------------- children_on_boundary_faces ---------------------- *)

\* variant: every parent face of the reverse mapping is taken, not only
\* those in faces
reverse_mapped_faces_unfiltered(reverse_mapping, child_pos, faces) ==
  UNION {reverse_mapping[child_pos][parent_face] :
           parent_face \in DOMAIN reverse_mapping[child_pos]}

\* the child faces the reverse mapping gives for the parent faces in faces
reverse_mapped_faces(reverse_mapping, child_pos, faces) ==
  UNION {reverse_mapping[child_pos][parent_face] :
           parent_face \in faces \cap DOMAIN reverse_mapping[child_pos]}

\* the nested function _children_by_face; target_res is its free variable.
\* It yields the list of cells and the number of h3 queries and lookups made.
RECURSIVE children_by_face(_, _, _, _)
children_by_face(current, res, faces, target_res) ==
  IF res = target_res THEN [cells |-> <<current>>, queries |-> 0]
  ELSE LET parity == (res + 1) % 2
           is_pent == is_pentagon(current)
           reverse_mapping == (IF is_pent THEN reversed_boundary_face_mapping_pent
                                          ELSE reversed_boundary_face_mapping_hex)[parity]
           children == cell_to_children(current, res + 1)
           of_child(child) ==
             LET child_pos == cell_to_child_pos(child, res)
                 mapped_faces == reverse_mapped_faces(reverse_mapping, child_pos, faces)
             IN  IF mapped_faces # {}
                 THEN children_by_face(child, res + 1, mapped_faces, target_res)
                 ELSE [cells |-> <<>>, queries |-> 0]
           RECURSIVE extend(_)
           extend(i) ==
             IF i > Len(children) THEN [cells |-> <<>>, queries |-> 2]
             ELSE LET first == of_child(children[i])
                      rest == extend(i + 1)
                  IN  [cells |-> first.cells \o rest.cells,
                       queries |-> 2 + first.queries + rest.queries]
       IN  extend(1)

\* variant: a target equal to the parent's resolution is refused
children_invalid_resolution_or_equal(target_res, res_parent) == target_res <= res_parent

\* the check of the arguments: TRUE when the call raises ValueError
children_invalid_resolution(target_res, res_parent) == target_res < res_parent

children_on_boundary_faces(parent, target_res, input_faces) ==
  LET res_parent == get_resolution(parent)
  IN  IF children_invalid_resolution(target_res, res_parent) THEN ValueError(<<>>, 0)
      ELSE LET found == children_by_face(parent, res_parent, input_faces, target_res)
           IN  Returned(found.cells, found.queries)

(* ------------------------------ inputs --------------------------------- *)

Min(a, b) == IF a < b THEN a ELSE b

Zeros(n) == [i \in 1..n |-> 0]

\* h3 never gives a pentagon base cell a first non-zero digit of 1
ValidCell(c) ==
  c.pent => \A i \in 1..Len(c.digits) :
              (c.digits[i] = 1) => \E j \in 1..(i - 1) : c.digits[j] # 0

\* the cells traced: every resolution up to MaxRes, the last MaxDepth digits
\* free, the digits above them 0 (center children of the base cell)
TraceCells ==
  { c \in UNION { { Cell(p, Zeros(r - Min(r, MaxDepth)) \o tail) :
                      tail \in [1..Min(r, MaxDepth) -> 0..6] } :
                  <<p, r>> \in BOOLEAN \X (0..MaxRes) } : ValidCell(c) }

\* the cells expanded: a base cell or a center descendant of one; only the
\* shape and the resolution of the parent enter the expansion
ParentCells == { Cell(p, Zeros(r)) : <<p, r>> \in BOOLEAN \X (0..MaxRes) }

FaceSets == {F \in SUBSET Faces : Cardinality(F) <= MaxFaces} \cup {Faces}

NoCell == Cell(FALSE, <<>>)

NoFaces == Returned({}, 0)

NoAncestor == Returned(NoCell, 0)

NoCells == Returned(<<>>, 0)

(* --------------------------- specification ----------------------------- *)

Init ==
  /\ pc = "idle"
  /\ call_op = "none"
  /\ call_cell = NoCell
  /\ call_faces = {}
  /\ call_res = None
  /\ faces_out = NoFaces
  /\ cell_out = NoAncestor
  /\ cells_out = NoCells

Call_trace_cell_to_ancestor_faces ==
  /\ pc = "idle"
  /\ \E c \in TraceCells, F \in FaceSets :
       \E r \in {None} \cup {Some(t) : t \in (-1)..(get_resolution(c) + 1)} :
         /\ call_op' = "trace_cell_to_ancestor_faces"
         /\ call_cell' = c
         /\ call_faces' = F
         /\ call_res' = r
         /\ faces_out' = trace_cell_to_ancestor_faces(c, F, r)
         /\ UNCHANGED <<cell_out, cells_out>>
  /\ pc' = "done"

Call_trace_cell_to_parent_faces ==
  /\ pc = "idle"
  /\ \E c \in TraceCells, F \in FaceSets :
       /\ call_op' = "trace_cell_to_parent_faces"
       /\ call_cell' = c
       /\ call_faces' = F
       /\ call_res' = None
       /\ faces_out' = trace_cell_to_parent_faces(c, F)
       /\ UNCHANGED <<cell_out, cells_out>>
  /\ pc' = "done"

Call_cell_to_coarsest_ancestor_on_faces ==
  /\ pc = "idle"
  /\ \E c \in TraceCells, F \in FaceSets :
       /\ call_op' = "cell_to_coarsest_ancestor_on_faces"
       /\ call_cell' = c
       /\ call_faces' = F
       /\ call_res' = None
       /\ cell_out' = cell_to_coarsest_ancestor_on_faces(c, F)
       /\ UNCHANGED <<faces_out, cells_out>>
  /\ pc' = "done"

Call_children_on_boundary_faces ==
  /\ pc = "idle"
  /\ \E F \in FaceSets, c \in ParentCells :
       \E t \in (get_resolution(c) - 1)..(get_resolution(c) + MaxK) :
         /\ call_op' = "children_on_boundary_faces"
         /\ call_cell' = c
         /\ call_faces' = F
         /\ call_res' = Some(t)
         /\ cells_out' = children_on_boundary_faces(c, t, F)
         /\ UNCHANGED <<faces_out, cell_out>>
  /\ pc' = "done"

\* the caller takes the outcome; the next call starts from scratch
Return ==
  /\ pc = "done"
  /\ pc' = "idle"
  /\ call_op' = "none"
  /\ call_cell' = NoCell
  /\ call_faces' = {}
  /\ call_res' = None
  /\ faces_out' = NoFaces
  /\ cell_out' = NoAncestor
  /\ cells_out' = NoCells

Next ==
  \/ Call_trace_cell_to_ancestor_faces
  \/ Call_trace_cell_to_parent_faces
  \/ Call_cell_to_coarsest_ancestor_on_faces
  \/ Call_children_on_boundary_faces
  \/ Return

Spec == Init /\ [][Next]_vars

(* ------------------------------ claims --------------------------------- *)

Called(name) == pc = "done" /\ call_op = name

\* the resolution of the cell passed to the call
CallRes == get_resolution(call_cell)

\* the ancestor resolution a tracing call aims at: explicit, or the default
CallTarget == IF call_res = None THEN CallRes - 1 ELSE call_res[1]

Forward(pentagon) ==
  IF pentagon THEN boundary_face_mapping_pent ELSE boundary_face_mapping_hex

Inverse(pentagon) ==
  IF pentagon THEN reversed_boundary_face_mapping_pent
              ELSE reversed_boundary_face_mapping_hex

\* C1: the inverse tables are exactly the inverse of the forward tables: for
\* every shape, parity, child position 1..6, child face cf and parent face
\* pf, the forward table maps cf to pf iff cf is in the inverse table's set
\* for pf.  The tables are constant data: the statement is checked as every
\* call that consults them completes.
C1_InverseTablesAreInverse ==
  pc = "done" =>
  \A pentagon \in BOOLEAN, parity \in {0, 1}, pos \in 1..6, cf \in Faces, pf \in Faces :
    LET fwd == Forward(pentagon)[parity][pos]
        inv == Inverse(pentagon)[parity][pos]
    IN  (cf \in DOMAIN fwd /\ fwd[cf] = pf) <=> (pf \in DOMAIN inv /\ cf \in inv[pf])

C3_Case ==
  /\ Called("trace_cell_to_ancestor_faces")
  /\ CallRes = 6
  /\ CallTarget = 5
  /\ ~is_pentagon(call_cell)
  /\ ~is_pentagon(cell_to_parent(call_cell, 5))
  /\ cell_to_child_pos(call_cell, 5) = 3

\* C3 as stated: in that case faces {2,3} trace to {2} and faces {5,6} to {}.
C3_AsStated ==
  C3_Case =>
    /\ (call_faces = {2, 3} => (~faces_out.raised /\ faces_out.value = {2}))
    /\ (call_faces = {5, 6} => (~faces_out.raised /\ faces_out.value = {}))

\* C3 amended: the cell's own resolution 6 is even, so the even mapping of
\* position 3, {6:2, 2:3, 3:3}, applies: faces {2,3} trace to {3} and faces
\* {5,6} trace to {2}.
C3_EvenTableApplies ==
  C3_Case =>
    /\ (call_faces = {2, 3} => (~faces_out.raised /\ faces_out.value = {3}))
    /\ (call_faces = {5, 6} => (~faces_out.raised /\ faces_out.value = {2}))

C3_Witness == C3_Case /\ call_faces = {2, 3} /\ faces_out.value = {3}

\* the case C8 is about: a trace aimed at the cell's own resolution
C8_Case ==
  /\ Called("trace_cell_to_ancestor_faces")
  /\ call_res = Some(CallRes)
  /\ call_faces # {}

\* C8 as stated: tracing a cell to its own resolution returns F unchanged.
C8_AsStated == C8_Case => (~faces_out.raised /\ faces_out.value = call_faces)

\* C8 amended: tracing a cell to its own resolution raises ValueError, before
\* any h3 query, whatever the non-empty face set.
C8_OwnResolutionRaises == C8_Case => (faces_out.raised /\ faces_out.queries = 0)

C8_Witness == C8_Case /\ CallRes > 0 /\ faces_out.raised

\* C10: at target_res = resolution(parent) the expansion returns [parent]
\* exactly when the face set is non-empty; with an empty face set it returns
\* the empty list, there and at every finer target_res.
C10_AsStated ==
  (Called("children_on_boundary_faces") /\ ~cells_out.raised) =>
    /\ (call_res[1] = CallRes =>
          ((cells_out.value = <<call_cell>>) <=> (call_faces # {})))
    /\ (call_faces = {} => cells_out.value = <<>>)

\* the set of elements of a list
Range(seq) == {seq[i] : i \in 1..Len(seq)}

\* every descendant of cell c (at resolution res) at resolution target_res
RECURSIVE Descendants(_, _, _)
Descendants(c, res, target_res) ==
  IF res = target_res THEN {c}
  ELSE UNION {Descendants(child, res + 1, target_res) :
                child \in Range(cell_to_children(c, res + 1))}

\* the faces of its ancestor at resolution res that cell d touches
TouchedFaces(d, res) == trace_cell_to_ancestor_faces(d, Faces, Some(res)).value

\* the case C4 and C5 are about: an expansion at least one level down with a
\* non-empty face set
ExpansionCase ==
  /\ Called("children_on_boundary_faces")
  /\ call_res[1] > CallRes
  /\ call_faces # {}

UnderPentagonPosition3(p, d) ==
  /\ is_pentagon(p)
  /\ cell_to_child_pos(cell_to_parent(d, get_resolution(p) + 1), get_resolution(p)) = 3

C5_AsStated ==
  ExpansionCase =>
    /\ Range(cells_out.value) =
         {d \in Descendants(call_cell, CallRes, call_res[1]) :
            TouchedFaces(d, CallRes) \cap call_faces # {}}
    /\ \A i, j \in 1..Len(cells_out.value) :
         cells_out.value[i] = cells_out.value[j] => i = j

\* the trace of the call's cell with the call's faces up to resolution r
CallTrace(r) == trace_cell_to_ancestor_faces(call_cell, call_faces, Some(r)).value

\* C6: the cell returned is an ancestor-or-self a of c; the trace of c with F
\* is non-empty at every resolution from a's up to (not including) c's; a is
\* at resolution 0 or the trace to the resolution above a's is empty; a
\* resolution-0 cell is returned unchanged and c itself is returned when the
\* first one-level trace is empty.
C6_CoarsestAncestor ==
  Called("cell_to_coarsest_ancestor_on_faces") =>
    LET a == cell_out.value
        ra == get_resolution(a)
    IN  /\ ~cell_out.raised
        /\ ra <= CallRes
        /\ a = cell_to_parent(call_cell, ra)
        /\ \A r \in ra..(CallRes - 1) : CallTrace(r) # {}
        /\ (ra = 0 \/ CallTrace(ra - 1) = {})
        /\ (CallRes = 0 => a = call_cell)
        /\ ((CallRes > 0 /\ trace_cell_to_parent_faces(call_cell, call_faces).value = {})
              => a = call_cell)

\* the search climbed two levels and stopped below resolution 0
C6_Witness ==
  /\ Called("cell_to_coarsest_ancestor_on_faces")
  /\ get_resolution(cell_out.value) = CallRes - 2
  /\ get_resolution(cell_out.value) > 0
  /\ CallTrace(get_resolution(cell_out.value)) # {}
  /\ CallTrace(get_resolution(cell_out.value) - 1) = {}

\* the face set that survives at the returned cell a: F itself when a = c
SurvivingFaces ==
  IF cell_out.value = call_cell THEN call_faces
  ELSE CallTrace(get_resolution(cell_out.value))

\* C7: calling cell_to_coarsest_ancestor_on_faces on its own result, with the
\* face set that survives there, returns that result again.
C7_Idempotent ==
  Called("cell_to_coarsest_ancestor_on_faces") =>
    cell_to_coarsest_ancestor_on_faces(cell_out.value, SurvivingFaces).value = cell_out.value

\* the search climbed to a proper ancestor above resolution 0 with a
\* non-empty surviving face set, and the second call stays there
C7_Witness ==
  /\ Called("cell_to_coarsest_ancestor_on_faces")
  /\ cell_out.value # call_cell
  /\ get_resolution(cell_out.value) > 0
  /\ SurvivingFaces # {}
  /\ cell_to_coarsest_ancestor_on_faces(cell_out.value, SurvivingFaces).value = cell_out.value

\* C9: a trace of k+1 levels is a subset of the one-level trace of the
\* ancestor k levels up with the k-level result; and once a trace is empty,
\* the trace to every coarser valid resolution is empty.
C9_MonotonicShrinkage ==
  (Called("trace_cell_to_ancestor_faces") /\ ~faces_out.raised) =>
    /\ (CallTarget <= CallRes - 2 =>
          faces_out.value \subseteq
            trace_cell_to_parent_faces(cell_to_parent(call_cell, CallTarget + 1),
                                       CallTrace(CallTarget + 1)).value)
    /\ (faces_out.value = {} => \A r \in 0..(CallTarget - 1) : CallTrace(r) = {})

\* a two-level trace kept a face, and dropped one the one-level trace had
C9_Witness ==
  /\ Called("trace_cell_to_ancestor_faces")
  /\ ~faces_out.raised
  /\ CallTarget = CallRes - 2
  /\ faces_out.value # {}
  /\ Cardinality(faces_out.value) < Cardinality(CallTrace(CallTarget + 1))

====
